---- MODULE Spec2Model ----
(***************************************************************************)
(* A model of flowlib's composition engine: FlowElement.from_dict, the     *)
(* component loader, init_flow / _init_component_recursive, the variable   *)
(* resolution walk and the write-once identifiers of flowlib/model/flow.py *)
(* and flowlib/parser.py.                                                  *)
(*                                                                         *)
(* Element and component names are sequences of one-character strings, so  *)
(* that "contains the delimiter" and the parent-path breadcrumbs are       *)
(* computed, not assumed.  Component paths, controller keys and variable   *)
(* names are plain strings.                                                *)
(***************************************************************************)
EXTENDS Integers, Sequences, FiniteSets, TLC

\* ------------------------------------------------------------------ bounds
\* Longest root canvas drawn in Init.
MaxCanvas == 2

\* ------------------------------------------------------- program constants
PG_NAME_DELIMETER == "/"

\* ----------------------------------------------------------------- helpers
EmptyMap == [k \in {} |-> ""]

Range(s) == {s[i] : i \in DOMAIN s}

SeqsUpTo(S, n) == UNION {[1..m -> S] : m \in 0..n}

\* The error an operation ends with; class "" is "no exception".
NoErr == [class |-> "", msg |-> "", arg |-> ""]

Err(class, msg, arg) == [class |-> class, msg |-> msg, arg |-> arg]

\* --------------------------------------------------------- raw node specs
\* A connection of a node spec: the name of the target and the two port
\* names, <<>> for a port that is not given.
Connection(name, from_port, to_port) ==
    [name |-> name, from_port |-> from_port, to_port |-> to_port]

\* A raw canvas-node mapping.  keys is the set of keys the mapping holds;
\* pkg says whether config holds a package_id.
RawEl(t, n, keys, cp, ctl, vs, pkg) ==
    [type |-> t, name |-> n, keys |-> keys, component_path |-> cp,
     controllers |-> ctl, vars |-> vs, pkg |-> pkg, parent_path |-> <<>>,
     connections |-> <<>>]

\* The node spec with a connections list.
Connected(d, connections) == [d EXCEPT !.connections = connections]

RawProc(n) ==
    RawEl("processor", n, {"type", "name", "config"}, "", EmptyMap, EmptyMap, TRUE)

RawProcNoPkg(n) ==
    RawEl("processor", n, {"type", "name", "config"}, "", EmptyMap, EmptyMap, FALSE)

RawIn(n) ==
    RawEl("input_port", n, {"type", "name"}, "", EmptyMap, EmptyMap, FALSE)

RawOut(n) ==
    RawEl("output_port", n, {"type", "name"}, "", EmptyMap, EmptyMap, FALSE)

RawPG(n, cp, ctl, vs) ==
    RawEl("process_group", n,
          {"type", "name", "component_path"}
              \cup (IF DOMAIN ctl = {} THEN {} ELSE {"controllers"})
              \cup (IF DOMAIN vs = {} THEN {} ELSE {"vars"}),
          cp, ctl, vs, FALSE)

\* ------------------------------------------------------ FlowElement (model)
\* A constructed element.  controllers maps a key to [ref, resolved]: the
\* controller name given in the spec and whether line 190 of parser.py has
\* replaced it by the Controller found under that name.
Binding(ref) == [ref |-> ref, resolved |-> FALSE]

\* Mutant of line 116: the connections of the spec are not kept.
Element_without_connections(d) ==
    [type |-> d.type, name |-> d.name, parent_path |-> d.parent_path,
     src_component_name |-> <<>>,
     component_path |-> IF d.type = "process_group" THEN d.component_path ELSE "",
     controllers |-> IF d.type = "process_group"
                     THEN [k \in DOMAIN d.controllers |-> Binding(d.controllers[k])]
                     ELSE EmptyMap,
     vars |-> IF d.type = "process_group" THEN d.vars ELSE EmptyMap,
     connections |-> <<>>]

Element(d) ==
    [type |-> d.type, name |-> d.name, parent_path |-> d.parent_path,
     src_component_name |-> <<>>,
     component_path |-> IF d.type = "process_group" THEN d.component_path ELSE "",
     controllers |-> IF d.type = "process_group"
                     THEN [k \in DOMAIN d.controllers |-> Binding(d.controllers[k])]
                     ELSE EmptyMap,
     vars |-> IF d.type = "process_group" THEN d.vars ELSE EmptyMap,
     connections |-> d.connections]

NoElement == Element([RawIn(<<>>) EXCEPT !.type = ""])

\* FlowElement.from_dict: the checks in the order of the code.  The message
\* of the delimiter error is formatted with Flow.PG_DELIMETER, an attribute
\* class Flow does not have: evaluating it raises AttributeError before the
\* FlowLibException is constructed.
from_dict_delimiter_error ==
    Err("AttributeError", "type object 'Flow' has no attribute 'PG_DELIMETER'", "")

from_dict(d) ==
    IF "type" \notin d.keys \/ d.type = ""
    THEN [err |-> Err("FlowLibException", "requires a dict with a 'type' field", ""),
          el |-> NoElement]
    ELSE IF "name" \notin d.keys \/ Len(d.name) < 1
    THEN [err |-> Err("FlowLibException", "Element names may not be empty", ""),
          el |-> NoElement]
    ELSE IF PG_NAME_DELIMETER \in Range(d.name)
    THEN [err |-> from_dict_delimiter_error, el |-> NoElement]
    ELSE IF d.type = "process_group"
    THEN [err |-> NoErr, el |-> Element(d)]
    ELSE IF d.type = "processor"
    THEN IF "config" \notin d.keys \/ ~d.pkg
         THEN [err |-> Err("FlowLibException", "config.package_id is a required field", ""),
               el |-> NoElement]
         ELSE [err |-> NoErr, el |-> Element(d)]
    ELSE IF d.type \in {"input_port", "output_port"}
    THEN [err |-> NoErr, el |-> Element(d)]
    ELSE [err |-> Err("FlowLibException", "Element 'type' field must be one of", ""),
          el |-> NoElement]

\* check_name (flowlib/validator.py): a name is rejected when it is empty,
\* holds the delimiter or is a reserved word.
ReservedWords == {<<"e", "n", "v">>, <<"c", "o", "n", "t", "r", "o", "l", "l", "e", "r">>}

check_name(n) ==
    IF Len(n) < 1 \/ PG_NAME_DELIMETER \in Range(n) \/ n \in ReservedWords
    THEN Err("FlowValidationException", "Invalid name", "")
    ELSE NoErr

\* -------------------------------------------------------------- components
\* A raw component definition, as yaml.safe_load returns it or as a batch
\* supplies it.
RawComponent(n, sf, rc, rv, pg) ==
    [hasName |-> TRUE, name |-> n, source_file |-> sf, required_controllers |-> rc,
     required_vars |-> rv, process_group |-> pg]

\* FlowComponent(copy.deepcopy(raw_component), **raw_component)
FlowComponent(raw) ==
    [name |-> raw.name, source_file |-> raw.source_file,
     required_controllers |-> raw.required_controllers,
     required_vars |-> raw.required_vars,
     process_group |-> raw.process_group, is_used |-> FALSE]

Req(k, t) == [key |-> k, type |-> t]

\* Names used by the inputs below.
FlowName == <<"f">>

RootName == <<"r", "o", "o", "t">>

\* The files of the component directory, by relative path.
ComponentDir ==
    [p \in {"simple", "req", "self", "circ1", "circ2", "nested", "dup", "alias", "noname"} |->
       CASE p = "simple" ->
              RawComponent(<<"S">>, "", <<>>, <<>>,
                           <<Connected(RawProc(<<"p">>), <<Connection(<<"o">>, <<>>, <<>>)>>),
                             Connected(RawIn(<<"i">>), <<Connection(<<"p">>, <<>>, <<>>)>>),
                             RawOut(<<"o">>)>>)
         [] p = "req" ->
              RawComponent(<<"R">>, "", <<Req("k1", "T1"), Req("k2", "T2")>>, <<"v1">>,
                           <<RawProc(<<"p">>)>>)
         [] p = "self" ->
              RawComponent(<<"X">>, "", <<>>, <<>>,
                           <<RawPG(<<"s">>, "self", EmptyMap, EmptyMap)>>)
         [] p = "circ1" ->
              RawComponent(<<"A">>, "", <<>>, <<>>,
                           <<RawPG(<<"x">>, "circ2", EmptyMap, EmptyMap)>>)
         [] p = "circ2" ->
              RawComponent(<<"B">>, "", <<>>, <<>>,
                           <<RawProc(<<"p">>), RawPG(<<"y">>, "circ1", EmptyMap, EmptyMap)>>)
         [] p = "nested" ->
              RawComponent(<<"N">>, "", <<>>, <<>>,
                           <<RawPG(<<"m">>, "simple", EmptyMap, EmptyMap),
                             RawPG(<<"n">>, "simple", EmptyMap, EmptyMap)>>)
         [] p = "dup" ->
              RawComponent(<<"D">>, "", <<>>, <<>>,
                           <<RawProc(<<"p">>), RawIn(<<"p">>)>>)
         [] p = "alias" ->
              RawComponent(<<"S">>, "", <<>>, <<>>, <<RawProc(<<"q">>)>>)
         [] OTHER ->
              [RawComponent(<<>>, "", <<>>, <<>>, <<>>) EXCEPT !.hasName = FALSE]]

\* The pre-parsed batch (with_components): the same definitions, each with
\* the source identity it was exported under.
BatchPaths == <<"simple", "req", "self", "circ1", "circ2", "nested", "dup", "alias">>

WithComponents ==
    [i \in DOMAIN BatchPaths |->
       [ComponentDir[BatchPaths[i]] EXCEPT !.source_file = BatchPaths[i]]]

\* flow._controllers, as init_controllers returns it (names are unique).
FlowControllers ==
    <<[name |-> "c1", package_id |-> "T1"], [name |-> "c2", package_id |-> "T2"]>>

\* ---------------------------------------------------------------- program state
VARIABLES
    canvas,      \* flow.canvas: the raw root node specs
    mode,        \* [dir, batch]: which of component_dir / with_components is given
    pc,          \* "raw", "canvas", "done", "failed"
    ci,          \* index of the next canvas node of init_flow's loop
    elems,       \* the element tree: path of names from the root -> element
    kids,        \* insertion order of each _elements dict: parent path -> names
    loaded,      \* flow._loaded_components: component name -> FlowComponent
    parses,      \* component path -> number of yaml.safe_load calls on it
    stack,       \* the active _init_component_recursive calls, innermost last
    err          \* the exception initialize ended with, if any

compVars == <<canvas, mode, pc, ci, elems, kids, loaded, parses, stack, err>>

\* The state of the other operations modelled below (each has its own
\* specification).
VARIABLES
    fd,          \* FlowElement.from_dict called on its own: [phase, spec, result]
    ids,         \* the _id / _parent_id fields of one element, controller and task
    idFirst,     \* history: field -> the value of the first assignment to it
    idRaised,    \* whether the last assignment raised
    resolve,     \* variable resolution of one flow: [phase, global_vars, globals,
                 \*   defaults, vars, context, properties]
    validation,  \* Flow.validate of the composed flow: [phase, err]
    lookup       \* a lookup method of Flow called on its own: [phase, op, ..., result]

idVars == <<ids, idFirst, idRaised>>

auxVars == <<fd, idVars, resolve, validation, lookup>>

vars == <<compVars, auxVars>>

\* ------------------------------------------------- the machines at rest
\* Each specification below runs one part of the library; the state of the
\* other parts stays as it is before they are used.
FdIdle == fd = [phase |-> "idle"]

\* The identifier fields: FlowElement and Controller have id and parent_id,
\* ReportingTask has id.
IdFields ==
    {"FlowElement.id", "FlowElement.parent_id", "Controller.id", "Controller.parent_id",
     "ReportingTask.id"}

\* None, and the values assigned: the empty string and two identifiers.
None == "<None>"

IdValues == {"", "u1", "u2"}

\* Python truthiness of an identifier value.
Truthy(v) == v # None /\ v # ""

Unassigned == [set |-> FALSE, value |-> None]

IdsIdle ==
    /\ ids = [f \in IdFields |-> None]
    /\ idFirst = [f \in IdFields |-> Unassigned]
    /\ idRaised = FALSE

\* Variable resolution not started: no flow is being resolved.
VarsIdle == resolve = [phase |-> "idle"]

\* Flow.validate not called.
ValidateIdle == validation = [phase |-> "idle"]

\* No lookup method called.
LookupIdle == lookup = [phase |-> "idle"]


\* ------------------------------------------------------------ Flow lookups
\* Flow.find_component_by_path: the loaded components whose source_file is
\* path.  More than one: the message is formatted with the undefined name
\* `name`, which raises NameError.
find_component_by_path(lc, path) ==
    LET filtered == {n \in DOMAIN lc : lc[n].source_file = path}
    IN  IF Cardinality(filtered) > 1
        THEN [err |-> Err("NameError", "name 'name' is not defined", ""), found |-> FALSE,
              name |-> <<>>]
        ELSE IF Cardinality(filtered) = 1
        THEN [err |-> NoErr, found |-> TRUE, name |-> CHOOSE n \in filtered : TRUE]
        ELSE [err |-> NoErr, found |-> FALSE, name |-> <<>>]

\* Flow.find_controller_by_name: the index of the controller, 0 for None.
find_controller_by_name(name) ==
    LET filtered == {i \in DOMAIN FlowControllers : FlowControllers[i].name = name}
    IN  IF Cardinality(filtered) > 1
        THEN [err |-> Err("FlowLibException", "Found multiple controllers named", name),
              idx |-> 0]
        ELSE IF Cardinality(filtered) = 1
        THEN [err |-> NoErr, idx |-> CHOOSE i \in filtered : TRUE]
        ELSE [err |-> NoErr, idx |-> 0]

\* ------------------------------------------------------------------ loader
\* Lines 157-167 of _load_component: the name checks and the cache.
store_component(lc, raw) ==
    IF ~raw.hasName
    THEN [err |-> Err("FlowValidationException", "Component does not contain a 'name' field", ""),
          loaded |-> lc]
    ELSE IF check_name(raw.name) # NoErr
    THEN [err |-> check_name(raw.name), loaded |-> lc]
    ELSE IF raw.name \in DOMAIN lc
    THEN [err |-> NoErr, loaded |-> lc]
    ELSE [err |-> NoErr, loaded |-> (raw.name :> FlowComponent(raw)) @@ lc]

\* _load_component(el, flow, component_dir=...): open and parse the file at
\* el.component_path, record its relative path as source_file, then store.
load_from_dir(lc, ps, path) ==
    IF path \notin DOMAIN ComponentDir
    THEN [err |-> Err("FileNotFoundError", "No such file or directory", path),
          loaded |-> lc, parses |-> ps]
    ELSE LET raw == [ComponentDir[path] EXCEPT !.source_file = path]
             st  == store_component(lc, raw)
         IN  [err |-> st.err, loaded |-> st.loaded,
              parses |-> [ps EXCEPT ![path] = @ + 1]]

\* init_flow lines 127-128: load every component of the batch, in order,
\* stopping at the first exception.
RECURSIVE load_batch(_, _, _)
load_batch(lc, batch, i) ==
    IF i > Len(batch)
    THEN [err |-> NoErr, loaded |-> lc]
    ELSE LET st == store_component(lc, batch[i])
         IN  IF st.err # NoErr THEN st ELSE load_batch(st.loaded, batch, i + 1)

\* ------------------------------------------------------------ parent paths
\* str.split(PG_NAME_DELIMETER) on a sequence of characters.
RECURSIVE Split(_)
Split(s) ==
    IF \A i \in DOMAIN s : s[i] # PG_NAME_DELIMETER
    THEN <<s>>
    ELSE LET i == CHOOSE j \in DOMAIN s :
                      /\ s[j] = PG_NAME_DELIMETER
                      /\ \A h \in 1..(j - 1) : s[h] # PG_NAME_DELIMETER
         IN  <<SubSeq(s, 1, i - 1)>> \o Split(SubSeq(s, i + 1, Len(s)))

\* "{}{}{}".format(pg._parent_path, Flow.PG_NAME_DELIMETER, pg.name)
ChildParentPath(pg) == pg.parent_path \o <<PG_NAME_DELIMETER>> \o pg.name

\* The path of names that get_parent_element follows from the flow: the
\* parent path without its first segment (the flow name).
ParentKey(el) == Tail(Split(el.parent_path))

\* Flow.get_parent_element reads element.parent_path; FlowElement defines
\* _parent_path and no parent_path, so the read raises AttributeError.
get_parent_element(el) ==
    [err |-> Err("AttributeError", "object has no attribute 'parent_path'", ""),
     key |-> ParentKey(el)]

\* is_component_circular (flowlib/validator.py): walk the ancestor chain of
\* parent paths; TRUE when an ancestor ProcessGroup instantiates the
\* component el is about to instantiate.
is_component_circular(tree, el) ==
    LET pk == ParentKey(el)
    IN  \E n \in 1..Len(pk) :
            LET a == SubSeq(pk, 1, n)
            IN  /\ a \in DOMAIN tree
                /\ tree[a].type = "process_group"
                /\ tree[a].component_path = el.component_path

\* ------------------------------------------- required controllers and vars
\* Mutant of lines 183-184: an absent required key is skipped, not raised.
RECURSIVE validate_controllers_lenient(_, _, _)
validate_controllers_lenient(req, i, ctl) ==
    IF i > Len(req)
    THEN [err |-> NoErr, controllers |-> ctl]
    ELSE IF req[i].key \notin DOMAIN ctl
    THEN validate_controllers_lenient(req, i + 1, ctl)
    ELSE validate_controllers_lenient(req, i + 1,
             [ctl EXCEPT ![req[i].key] = [ref |-> ctl[req[i].key].ref, resolved |-> TRUE]])

\* Lines 182-190: in declaration order, each required key must be present,
\* its controller is looked up by name and its package_id compared; a key
\* that passes is rebound to the Controller.  controller is None when no
\* controller has the name, and controller.config raises AttributeError.
RECURSIVE validate_controllers(_, _, _)
validate_controllers(req, i, ctl) ==
    IF i > Len(req)
    THEN [err |-> NoErr, controllers |-> ctl]
    ELSE LET k == req[i].key
             v == req[i].type
         IN  IF k \notin DOMAIN ctl
             THEN [err |-> Err("FlowValidationException", "Missing required_controllers", k),
                   controllers |-> ctl]
             ELSE LET c == find_controller_by_name(ctl[k].ref)
                  IN  IF c.err # NoErr
                      THEN [err |-> c.err, controllers |-> ctl]
                      ELSE IF c.idx = 0
                      THEN [err |-> Err("AttributeError",
                                        "'NoneType' object has no attribute 'config'", k),
                            controllers |-> ctl]
                      ELSE IF v # FlowControllers[c.idx].package_id
                      THEN [err |-> Err("FlowValidationException",
                                        "Invalid controller reference", k),
                            controllers |-> ctl]
                      ELSE validate_controllers(req, i + 1,
                               [ctl EXCEPT ![k] = [ref |-> ctl[k].ref, resolved |-> TRUE]])

\* Mutant of lines 193-196: the required variables are not checked.
validate_vars_dropped(rv, vs) == NoErr

\* Lines 193-196: the first required variable, in declaration order, that
\* the ProcessGroup's vars do not hold.
validate_vars(rv, vs) ==
    LET missing == {i \in DOMAIN rv : rv[i] \notin DOMAIN vs}
    IN  IF missing = {}
        THEN NoErr
        ELSE LET i == CHOOSE j \in missing : \A h \in missing : j <= h
             IN  Err("FlowValidationException", "Missing required_vars", rv[i])

\* ------------------------------------------------------------------ inputs
Ctl(k1, k2) ==
    [k \in (IF k1 = "" THEN {} ELSE {"k1"}) \cup (IF k2 = "" THEN {} ELSE {"k2"}) |->
       IF k = "k1" THEN k1 ELSE k2]

V1 == [v \in {"v1"} |-> "val"]

\* ProcessGroups instantiating the component with requirements, by what
\* they bind: nothing, everything, one key only, a controller of another
\* type, a controller name the flow does not define.
ReqGroups ==
    {RawPG(<<"g">>, "req", c, v) :
       c \in {Ctl("", ""), Ctl("c1", "c2"), Ctl("c1", ""), Ctl("", "c2")}, v \in {EmptyMap, V1}}
    \cup {RawPG(<<"g">>, "req", Ctl("c2", ""), V1),
          RawPG(<<"g">>, "req", Ctl("cX", "c2"), V1),
          RawPG(<<"h">>, "req", Ctl("c1", "c2"), V1)}

CanvasSpecs ==
    {RawProc(<<"p">>), RawProc(<<"g">>), RawProcNoPkg(<<"p">>),
     RawProc(<<"a", "/", "b">>)}
    \cup {RawPG(<<"g">>, cp, EmptyMap, EmptyMap) :
            cp \in {"simple", "self", "circ1", "nested", "dup", "alias", "noname", "nofile"}}
    \cup {RawPG(<<"h">>, cp, EmptyMap, EmptyMap) : cp \in {"simple", "alias"}}
    \cup ReqGroups

Modes == [dir : BOOLEAN, batch : BOOLEAN]

\* ---------------------------------------------------------------- init_flow
\* An active call of _init_component_recursive for the ProcessGroup at key,
\* or the _load_component call(s) init_flow / the caller makes just before.
Frame(key, phase) == [key |-> key, phase |-> phase, comp |-> <<>>, idx |-> 0]

Top == stack[Len(stack)]

SetTop(f) == [stack EXCEPT ![Len(stack)] = f]

Failed(e) == pc' = "failed" /\ err' = e

\* Lines 90-108: the flow name is checked, the helpers and globals are set
\* and the controllers initialized; the canvas loop starts.
InitFlowStart ==
    /\ pc = "raw"
    /\ IF check_name(FlowName) # NoErr
       THEN Failed(check_name(FlowName)) /\ UNCHANGED ci
       ELSE pc' = "canvas" /\ ci' = 1 /\ UNCHANGED err
    /\ UNCHANGED <<canvas, mode, elems, kids, loaded, parses, stack>>
    /\ UNCHANGED auxVars

\* Line 116: is a root element of this name already defined?
root_is_defined(tree, el) == <<el.name>> \in DOMAIN tree

\* Lines 110-135, one iteration of the canvas loop, up to the first call it
\* makes for a ProcessGroup (_load_component).  ci stays on the node until
\* its subtree is composed.
CanvasElement ==
    /\ pc = "canvas" /\ stack = <<>> /\ ci <= Len(canvas)
    /\ LET d     == [canvas[ci] EXCEPT !.parent_path = FlowName]
           r     == from_dict(d)
           el    == [r.el EXCEPT !.src_component_name = RootName]
           key   == <<el.name>>
           tree1 == (key :> el) @@ elems
           kids1 == IF el.type = "process_group"
                    THEN (key :> <<>>) @@ [kids EXCEPT ![<<>>] = Append(@, el.name)]
                    ELSE [kids EXCEPT ![<<>>] = Append(@, el.name)]
       IN  /\ canvas' = [canvas EXCEPT ![ci] = d]
           /\ IF r.err # NoErr
              THEN Failed(r.err) /\ UNCHANGED <<ci, elems, kids, stack>>
              ELSE IF check_name(el.name) # NoErr
              THEN Failed(check_name(el.name)) /\ UNCHANGED <<ci, elems, kids, stack>>
              ELSE IF root_is_defined(elems, el)
              THEN Failed(Err("FlowValidationException",
                              "Root FlowElement is already defined", ""))
                   /\ UNCHANGED <<ci, elems, kids, stack>>
              ELSE /\ elems' = tree1
                   /\ kids' = kids1
                   /\ IF mode.dir /\ mode.batch
                      THEN Failed(Err("FlowLibException",
                                      "Only one of component_dir or with_components", ""))
                           /\ UNCHANGED <<ci, stack>>
                      ELSE IF el.type # "process_group"
                      THEN ci' = ci + 1 /\ UNCHANGED <<pc, err, stack>>
                      ELSE IF mode.batch
                      THEN stack' = <<Frame(key, "loadbatch")>> /\ UNCHANGED <<pc, err, ci>>
                      ELSE IF mode.dir
                      THEN stack' = <<Frame(key, "load")>> /\ UNCHANGED <<pc, err, ci>>
                      ELSE Failed(Err("FlowValidationException",
                                      "no component_dir or components were specified", ""))
                           /\ UNCHANGED <<ci, stack>>
    /\ UNCHANGED <<mode, loaded, parses>>
    /\ UNCHANGED auxVars

\* Lines 127-128: every component of the batch is loaded, then (line 129)
\* _init_component_recursive is called.
LoadBatch ==
    /\ pc = "canvas" /\ stack # <<>> /\ Top.phase = "loadbatch"
    /\ LET lb == load_batch(loaded, WithComponents, 1)
       IN  /\ loaded' = lb.loaded
           /\ IF lb.err # NoErr
              THEN Failed(lb.err) /\ UNCHANGED stack
              ELSE stack' = SetTop([Top EXCEPT !.phase = "enter"]) /\ UNCHANGED <<pc, err>>
    /\ UNCHANGED <<canvas, mode, ci, elems, kids, parses>>
    /\ UNCHANGED auxVars

\* Lines 131 and 217: _load_component(el, flow, component_dir=component_dir),
\* then (lines 133, 218) _init_component_recursive is called.
LoadComponent ==
    /\ pc = "canvas" /\ stack # <<>> /\ Top.phase = "load"
    /\ LET ld == load_from_dir(loaded, parses, elems[Top.key].component_path)
       IN  /\ loaded' = ld.loaded
           /\ parses' = ld.parses
           /\ IF ld.err # NoErr
              THEN Failed(ld.err) /\ UNCHANGED stack
              ELSE stack' = SetTop([Top EXCEPT !.phase = "enter"]) /\ UNCHANGED <<pc, err>>
    /\ UNCHANGED <<canvas, mode, ci, elems, kids>>
    /\ UNCHANGED auxVars

\* init_flow returns: the canvas loop has run out.
InitFlowReturn ==
    /\ pc = "canvas" /\ stack = <<>> /\ ci > Len(canvas)
    /\ pc' = "done"
    /\ UNCHANGED <<canvas, mode, ci, elems, kids, loaded, parses, stack, err>>
    /\ UNCHANGED auxVars

\* ------------------------------------------------- _init_component_recursive
\* Lines 181-196: the required controllers, then the required variables.
validate_requirements(component, pg) ==
    LET vc == validate_controllers(component.required_controllers, 1, pg.controllers)
    IN  IF vc.err # NoErr
        THEN vc
        ELSE [err |-> validate_vars(component.required_vars, pg.vars),
              controllers |-> vc.controllers]

\* Lines 171-196: resolve the component of the ProcessGroup and validate
\* what it requires.
InitComponentEnter ==
    /\ pc = "canvas" /\ stack # <<>> /\ Top.phase = "enter"
    /\ LET pg == elems[Top.key]
           fc == find_component_by_path(loaded, pg.component_path)
       IN  IF fc.err # NoErr
           THEN Failed(fc.err) /\ UNCHANGED <<elems, stack>>
           ELSE IF ~fc.found
           THEN \* line 174 fails before the "not found" error is built
                Failed(get_parent_element(pg).err) /\ UNCHANGED <<elems, stack>>
           ELSE LET component == loaded[fc.name]
                    vr == validate_requirements(component, pg)
                IN  /\ elems' = [elems EXCEPT ![Top.key] =
                                    [pg EXCEPT !.src_component_name = component.name,
                                               !.controllers = vr.controllers]]
                    /\ IF vr.err # NoErr
                       THEN Failed(vr.err) /\ UNCHANGED stack
                       ELSE /\ stack' = SetTop([Top EXCEPT !.phase = "children",
                                                           !.comp = fc.name, !.idx = 1])
                            /\ UNCHANGED <<pc, err>>
    /\ UNCHANGED <<canvas, mode, ci, kids, loaded, parses>>
    /\ UNCHANGED auxVars

\* Line 205: does the ProcessGroup already hold a child of this name?
child_is_defined(tree, pgkey, el) == Append(pgkey, el.name) \in DOMAIN tree

\* Line 206 formats its message with pg_element.component_ref; ProcessGroup
\* defines component_path and no component_ref, so building the
\* FlowValidationException raises AttributeError.
duplicate_child_error ==
    Err("AttributeError", "'ProcessGroup' object has no attribute 'component_ref'", "")

\* Mutants of line 211: the check dropped; the check made against every
\* ProcessGroup composed so far instead of the parent.
references_parent_dropped(el, pg) == FALSE

references_any_group(el, pg) ==
    \E k \in DOMAIN elems :
        elems[k].type = "process_group" /\ elems[k].component_path = el.component_path

\* Line 211: the child instantiates the component of its parent.
references_parent(el, pg) == el.component_path = pg.component_path

\* Lines 199-218, one iteration of the loop over the component's children,
\* up to the first call it makes for a child ProcessGroup.
ComposeChild ==
    /\ pc = "canvas" /\ stack # <<>> /\ Top.phase = "children"
    /\ Top.idx <= Len(loaded[Top.comp].process_group)
    /\ LET component == loaded[Top.comp]
           pg    == elems[Top.key]
           d     == [component.process_group[Top.idx] EXCEPT
                        !.parent_path = ChildParentPath(pg)]
           r     == from_dict(d)
           el    == [r.el EXCEPT !.src_component_name = component.name]
           key   == Append(Top.key, el.name)
           tree1 == (key :> el) @@ elems
           kids1 == IF el.type = "process_group"
                    THEN (key :> <<>>) @@ [kids EXCEPT ![Top.key] = Append(@, el.name)]
                    ELSE [kids EXCEPT ![Top.key] = Append(@, el.name)]
           next  == [Top EXCEPT !.idx = @ + 1]
       IN  /\ loaded' = [loaded EXCEPT ![Top.comp].process_group[Top.idx] = d]
           /\ IF r.err # NoErr
              THEN Failed(r.err) /\ UNCHANGED <<elems, kids, stack>>
              ELSE IF check_name(el.name) # NoErr
              THEN Failed(check_name(el.name)) /\ UNCHANGED <<elems, kids, stack>>
              ELSE IF child_is_defined(elems, Top.key, el)
              THEN Failed(duplicate_child_error) /\ UNCHANGED <<elems, kids, stack>>
              ELSE /\ elems' = tree1
                   /\ kids' = kids1
                   /\ IF el.type # "process_group"
                      THEN stack' = SetTop(next) /\ UNCHANGED <<pc, err>>
                      ELSE IF references_parent(el, pg)
                      THEN Failed(Err("FlowValidationException",
                                      "Recursive component reference", pg.component_path))
                           /\ UNCHANGED stack
                      ELSE IF is_component_circular(tree1, el)
                      THEN Failed(Err("FlowValidationException",
                                      "Circular component reference", pg.component_path))
                           /\ UNCHANGED stack
                      ELSE /\ stack' = Append(SetTop(next),
                                              Frame(key, IF mode.dir THEN "load" ELSE "enter"))
                           /\ UNCHANGED <<pc, err>>
    /\ UNCHANGED <<canvas, mode, ci, parses>>
    /\ UNCHANGED auxVars

\* Mutant of line 220: the call returns without marking the component used.
InitComponentReturn_unmarked ==
    /\ pc = "canvas" /\ stack # <<>> /\ Top.phase = "children"
    /\ Top.idx > Len(loaded[Top.comp].process_group)
    /\ stack' = SubSeq(stack, 1, Len(stack) - 1)
    /\ ci' = IF Len(stack) = 1 THEN ci + 1 ELSE ci
    /\ UNCHANGED <<canvas, mode, pc, elems, kids, loaded, parses, err>>
    /\ UNCHANGED auxVars

\* Line 220: the loop has run out; the component is marked used and the
\* call returns (to the loop of the caller, or to init_flow's canvas loop).
InitComponentReturn ==
    /\ pc = "canvas" /\ stack # <<>> /\ Top.phase = "children"
    /\ Top.idx > Len(loaded[Top.comp].process_group)
    /\ loaded' = [loaded EXCEPT ![Top.comp].is_used = TRUE]
    /\ stack' = SubSeq(stack, 1, Len(stack) - 1)
    /\ ci' = IF Len(stack) = 1 THEN ci + 1 ELSE ci
    /\ UNCHANGED <<canvas, mode, pc, elems, kids, parses, err>>
    /\ UNCHANGED auxVars

\* ------------------------------------------------------------ specification
CompInit ==
    /\ pc = "raw"
    /\ ci = 1
    /\ elems = <<>>
    /\ kids = (<<>> :> <<>>)
    /\ loaded = <<>>
    /\ parses = [p \in DOMAIN ComponentDir |-> 0]
    /\ stack = <<>>
    /\ err = NoErr

\* ---------------------------------------------------- write-once identifiers
\* The guard of every id / parent_id setter: `if self._id: raise`.
setter_raises(current) == Truthy(current)

\* obj.id = v (obj.parent_id = v): the setters of FlowElement, Controller
\* and ReportingTask.
SetId(f, v) ==
    /\ IF setter_raises(ids[f])
       THEN idRaised' = TRUE /\ UNCHANGED ids
       ELSE idRaised' = FALSE /\ ids' = [ids EXCEPT ![f] = v]
    /\ idFirst' = IF idFirst[f].set THEN idFirst
                  ELSE [idFirst EXCEPT ![f] = [set |-> TRUE, value |-> v]]
    /\ UNCHANGED <<compVars, fd, resolve, validation, lookup>>

IdsInit ==
    /\ IdsIdle
    /\ FdIdle
    /\ VarsIdle
    /\ ValidateIdle
    /\ LookupIdle
    /\ canvas = <<>>
    /\ mode = [dir |-> TRUE, batch |-> FALSE]
    /\ CompInit

IdsNext == \E f \in IdFields, v \in IdValues : SetId(f, v)

SpecIds == IdsInit /\ [][IdsNext]_vars

\* ------------------------------------------------------ variable resolution
\* A template is a sequence of tokens: literal characters and `{{ name }}`
\* references.  The text a render produces is again a sequence of tokens: a
\* reference token in it is the text `{{ name }}`, which a later render of
\* that text evaluates.
Lit(c) == [k |-> "lit", v |-> c]

Ref(n) == [k |-> "var", v |-> n]

\* `{{ controller('name') }}`: a call of the controller helper.
ControllerRef(n) == [k |-> "ctl", v |-> n]

VarNames == {"a", "b"}

\* jinja2 name resolution in template.render(**context): the render
\* arguments shadow env.globals, and an undefined name renders as empty.
jinja_resolve(n, context, globals) ==
    IF n \in DOMAIN context THEN context[n]
    ELSE IF n \in DOMAIN globals THEN globals[n]
    ELSE <<>>

\* What a controllers mapping holds under a name or key: a Controller, with
\* its id (None until the controller is created), or, in the mapping of a
\* ProcessGroup under a key its component does not require, still the
\* controller's name as the spec gives it (parser.py line 190 replaces the
\* required keys only).
ControllerService(id) == [resolved |-> TRUE, id |-> id]

ControllerName == [resolved |-> FALSE, id |-> None]

\* controller_lookup of _set_global_helpers, closed over the controllers
\* bound: controllers[name].id, an attribute a name (str) does not have.
controller_lookup(name, controllers) ==
    IF name \in DOMAIN controllers
    THEN IF controllers[name].resolved
         THEN [err |-> NoErr, value |-> controllers[name].id]
         ELSE [err |-> Err("AttributeError", "'str' object has no attribute 'id'", name),
               value |-> None]
    ELSE [err |-> NoErr, value |-> None]

\* The text jinja2 writes for the value of an expression: str(value), which
\* for None is the four characters None.
jinja_finalize(value) ==
    IF value = None THEN <<Lit("N"), Lit("o"), Lit("n"), Lit("e")>>
    ELSE <<Lit(value)>>

RECURSIVE template_raises(_, _)
\* The exception a render of t raises: the first a helper call raises.
template_raises(t, controllers) ==
    IF t = <<>> THEN NoErr
    ELSE IF Head(t).k = "ctl" /\ controller_lookup(Head(t).v, controllers).err # NoErr
         THEN controller_lookup(Head(t).v, controllers).err
         ELSE template_raises(Tail(t), controllers)

RECURSIVE render(_, _, _, _)
\* env.from_string(t).render(**context): one pass over the template; the
\* values substituted are not evaluated again within the pass.
render(t, context, globals, controllers) ==
    IF t = <<>> THEN <<>>
    ELSE (IF Head(t).k = "var" THEN jinja_resolve(Head(t).v, context, globals)
          ELSE IF Head(t).k = "ctl"
               THEN jinja_finalize(controller_lookup(Head(t).v, controllers).value)
               ELSE <<Head(t)>>)
         \o render(Tail(t), context, globals, controllers)

\* context[key] = value
MapPut(m, key, value) ==
    [x \in DOMAIN m \cup {key} |-> IF x = key THEN value ELSE m[x]]

\* env.globals.update(**flow.global_vars)
MapUpdate(m, n) ==
    [x \in DOMAIN m \cup DOMAIN n |-> IF x \in DOMAIN n THEN n[x] ELSE m[x]]

RECURSIVE replace_vars_context(_, _, _, _)
\* _replace_vars lines 260-264: the context starts as a copy of the
\* component's defaults; each instance var, in the order of the mapping, is
\* rendered against the context built so far and then written into it.
replace_vars_context(context, pgvars, globals, controllers) ==
    IF pgvars = <<>> THEN context
    ELSE replace_vars_context(
             MapPut(context, Head(pgvars).key,
                    render(Head(pgvars).val, context, globals, controllers)),
             Tail(pgvars), globals, controllers)

\* _template_properties: the property of the processor is replaced by its
\* render against the context.
template_properties(property, context, globals, controllers) ==
    render(property, context, globals, controllers)

\* The property templates of the two processors of the flow resolved, the
\* root-canvas processor and the processor inside the ProcessGroup: one
\* property of variables and one of a controller lookup.
PropertyTemplate == <<Ref("a"), Lit("-"), Ref("b")>>

LookupTemplate == <<Lit("i"), Lit("="), ControllerRef("c1")>>

Templates ==
    [root |-> PropertyTemplate, child |-> PropertyTemplate,
     root_lookup |-> LookupTemplate, child_lookup |-> LookupTemplate]

GlobalValues == {<<Lit("g")>>, <<Ref("a"), Lit("g")>>}

DefaultValues == {<<Lit("x")>>, <<Ref("b")>>}

OverrideValues == {<<Lit("y")>>, <<Ref("a"), Lit("y")>>}

MapsTo(Values) == UNION {[S -> Values] : S \in SUBSET VarNames}

\* The vars mapping of the ProcessGroup, in the order of its keys.
InstanceVars ==
    {s \in SeqsUpTo([key : VarNames, val : OverrideValues], 2) :
        \A i, j \in DOMAIN s : i # j => s[i].key # s[j].key}

\* The controllers a lookup is bound to.  The flow's, by name: c1 unknown,
\* not yet created, created.
FlowControllerBindings ==
    UNION {[S -> {ControllerService(None), ControllerService("u1")}] : S \in SUBSET {"c1"}}

\* The ProcessGroup's, by key: the same, or the key c1 not required by the
\* component.
GroupControllerBindings ==
    UNION {[S -> {ControllerService(None), ControllerService("u1"), ControllerName}] :
              S \in SUBSET {"c1"}}

\* The global vars of a second flow resolved in the same process.
SecondGlobalValues == {<<Lit("h")>>}

\* No processor templated yet: the contexts each was evaluated against.
NotEvaluated == [root |-> <<>>, child |-> <<>>]

VarsInit ==
    /\ \E gv \in MapsTo(GlobalValues), d \in MapsTo(DefaultValues), v \in InstanceVars,
          fc \in FlowControllerBindings, gc \in GroupControllerBindings :
           resolve = [phase |-> "raw", run |-> 1, given |-> gv, global_vars |-> gv,
                      globals |-> EmptyMap, defaults |-> d, vars |-> v,
                      context |-> EmptyMap, properties |-> Templates,
                      flow_controllers |-> fc, group_controllers |-> gc,
                      bound |-> EmptyMap, evaluated |-> NotEvaluated, err |-> NoErr]
    /\ canvas = <<>>
    /\ mode = [dir |-> TRUE, batch |-> FALSE]
    /\ CompInit
    /\ FdIdle
    /\ IdsIdle
    /\ ValidateIdle
    /\ LookupIdle

\* An exception leaves the walk.
VarsFailed(e) == resolve' = [resolve EXCEPT !.phase = "failed", !.err = e]

\* init_flow lines 93-107: the helpers are bound to no controllers, each
\* global var is rendered against env.globals as they are, then env.globals
\* is updated with the rendered values.
RenderGlobals ==
    /\ resolve.phase = "raw"
    /\ LET rendered == [n \in DOMAIN resolve.global_vars |->
                           render(resolve.global_vars[n], EmptyMap, resolve.globals, EmptyMap)]
       IN  resolve' = [resolve EXCEPT !.phase = "root", !.global_vars = rendered,
                                      !.globals = MapUpdate(resolve.globals, rendered),
                                      !.bound = EmptyMap]
    /\ UNCHANGED <<compVars, fd, idVars, validation, lookup>>

\* replace_flow_element_vars_recursive lines 233, 240-244: the helpers are
\* bound to the flow's controllers and the root-canvas processor is
\* templated with the empty context.
TemplateRoot ==
    /\ resolve.phase = "root"
    /\ LET bound == resolve.flow_controllers
           raised == template_raises(resolve.properties.root_lookup, bound)
       IN  IF raised # NoErr
           THEN VarsFailed(raised)
           ELSE resolve' = [resolve EXCEPT
                    !.phase = "group",
                    !.bound = bound,
                    !.evaluated.root = Append(@, "global"),
                    !.properties.root =
                        template_properties(@, EmptyMap, resolve.globals, bound),
                    !.properties.root_lookup =
                        template_properties(@, EmptyMap, resolve.globals, bound)]
    /\ UNCHANGED <<compVars, fd, idVars, validation, lookup>>

\* Lines 234-236 and _replace_vars: the context of the group is built with
\* the helpers as they are bound, the helpers are bound to the group's
\* controllers (line 267), and the processor inside the ProcessGroup is
\* templated with the context of the group.
ReplaceVars ==
    /\ resolve.phase = "group"
    /\ LET context == replace_vars_context(resolve.defaults, resolve.vars, resolve.globals,
                                           resolve.bound)
           bound == resolve.group_controllers
           raised == template_raises(resolve.properties.child_lookup, bound)
       IN  IF raised # NoErr
           THEN VarsFailed(raised)
           ELSE resolve' = [resolve EXCEPT
                    !.phase = "nested",
                    !.context = context,
                    !.bound = bound,
                    !.evaluated.child = Append(@, "group"),
                    !.properties.child =
                        template_properties(@, context, resolve.globals, bound),
                    !.properties.child_lookup =
                        template_properties(@, context, resolve.globals, bound)]
    /\ UNCHANGED <<compVars, fd, idVars, validation, lookup>>

\* Line 237: the walk recurses into the children of the ProcessGroup, where
\* lines 240-244 bind the helpers to the flow's controllers and template
\* the same processor again, with the empty context.
TemplateNested ==
    /\ resolve.phase = "nested"
    /\ LET bound == resolve.flow_controllers
           raised == template_raises(resolve.properties.child_lookup, bound)
       IN  IF raised # NoErr
           THEN VarsFailed(raised)
           ELSE resolve' = [resolve EXCEPT
                    !.phase = "done",
                    !.bound = bound,
                    !.evaluated.child = Append(@, "global"),
                    !.properties.child =
                        template_properties(@, EmptyMap, resolve.globals, bound),
                    !.properties.child_lookup =
                        template_properties(@, EmptyMap, resolve.globals, bound)]
    /\ UNCHANGED <<compVars, fd, idVars, validation, lookup>>

VarsNext ==
    \/ RenderGlobals
    \/ TemplateRoot
    \/ ReplaceVars
    \/ TemplateNested

SpecVars == VarsInit /\ [][VarsNext]_vars

\* A second, independent flow is initialized and resolved in the same
\* process: a new Flow object, the same module-level env (parser.py line 17).
\* The second flow has no controllers, and its ProcessGroup no defaults and
\* no vars.
NextFlow ==
    /\ resolve.phase = "done"
    /\ resolve.run = 1
    /\ \E gv \in MapsTo(SecondGlobalValues) :
           resolve' = [phase |-> "raw", run |-> 2, given |-> gv, global_vars |-> gv,
                       globals |-> resolve.globals, defaults |-> EmptyMap, vars |-> <<>>,
                       context |-> EmptyMap, properties |-> Templates,
                       flow_controllers |-> EmptyMap, group_controllers |-> EmptyMap,
                       bound |-> resolve.bound, evaluated |-> NotEvaluated, err |-> NoErr]
    /\ UNCHANGED <<compVars, fd, idVars, validation, lookup>>

TwoFlowsNext ==
    \/ VarsNext
    \/ NextFlow

SpecTwoFlows == VarsInit /\ [][TwoFlowsNext]_vars

Init ==
    /\ canvas \in SeqsUpTo(CanvasSpecs, MaxCanvas)
    /\ mode \in Modes
    /\ CompInit
    /\ FdIdle
    /\ IdsIdle
    /\ VarsIdle
    /\ ValidateIdle
    /\ LookupIdle

Next ==
    \/ InitFlowStart
    \/ CanvasElement
    \/ LoadBatch
    \/ LoadComponent
    \/ InitComponentEnter
    \/ ComposeChild
    \/ InitComponentReturn
    \/ InitFlowReturn

Spec == Init /\ [][Next]_vars

\* The canvases of the flows whose termination is checked: a processor and
\* ProcessGroups of a plain component, of a self-referencing one, of two
\* mutually referencing ones, of one with ProcessGroups inside, and of one
\* with requirements, all bound.
LiveCanvasSpecs ==
    {RawProc(<<"p">>), RawPG(<<"h">>, "req", Ctl("c1", "c2"), V1)}
    \cup {RawPG(<<"g">>, cp, EmptyMap, EmptyMap) : cp \in {"simple", "self", "circ1", "nested"}}

LiveInit ==
    /\ canvas \in SeqsUpTo(LiveCanvasSpecs, MaxCanvas)
    /\ mode \in Modes
    /\ CompInit
    /\ FdIdle
    /\ IdsIdle
    /\ VarsIdle
    /\ ValidateIdle
    /\ LookupIdle

\* initialize runs on: a call in progress takes its next step (one thread,
\* no step waits on anything).
SpecLive == LiveInit /\ [][Next]_vars /\ WF_vars(Next)

\* ------------------------------------------------------ structural validator
\* flowlib/validator.py is not part of the sources: the validator is modelled
\* from section 4.5 of the specification and the messages the tests of
\* tests/test_validator.py match.
PortNames(pg, type) ==
    {elems[k].name : k \in {j \in DOMAIN elems :
                               /\ Len(j) = Len(pg) + 1
                               /\ SubSeq(j, 1, Len(pg)) = pg
                               /\ elems[j].type = type}}

\* The element a connection of the element at key leads to: the sibling of
\* that name.
ConnectionTarget(key, c) == SubSeq(key, 1, Len(key) - 1) \o <<c.name>>

\* One connection: the source side, then the destination side.
validate_connection(key, c) ==
    LET target == ConnectionTarget(key, c)
    IN  IF elems[key].type = "process_group" /\ c.from_port = <<>>
        THEN Err("FlowValidationException", "does not define a from_port", c.name)
        ELSE IF elems[key].type = "process_group"
                /\ c.from_port \notin PortNames(key, "output_port")
        THEN Err("FlowValidationException", "does not define an OutputPort named",
                 c.from_port)
        ELSE IF target \in DOMAIN elems /\ elems[target].type = "process_group"
                /\ c.to_port = <<>>
        THEN Err("FlowValidationException", "does not define a to_port", c.name)
        ELSE IF target \in DOMAIN elems /\ elems[target].type = "process_group"
                /\ c.to_port \notin PortNames(target, "input_port")
        THEN Err("FlowValidationException", "does not define an InputPort named", c.to_port)
        ELSE NoErr

RECURSIVE validate_connections(_, _)
\* The connections of one element from the i-th on: the first error.
validate_connections(key, i) ==
    IF i > Len(elems[key].connections) THEN NoErr
    ELSE LET e == validate_connection(key, elems[key].connections[i])
         IN  IF e # NoErr THEN e ELSE validate_connections(key, i + 1)

RECURSIVE validate_elements(_, _)
\* The elements of one scope from the i-th on, each followed by the
\* elements inside it: the first error.
validate_elements(scope, i) ==
    IF i > Len(kids[scope]) THEN NoErr
    ELSE LET key == scope \o <<kids[scope][i]>>
             e == validate_connections(key, 1)
             inner == IF elems[key].type = "process_group"
                      THEN validate_elements(key, 1) ELSE NoErr
         IN  IF e # NoErr THEN e
             ELSE IF inner # NoErr THEN inner
             ELSE validate_elements(scope, i + 1)

\* flow.validate() on the composed flow.
Validate ==
    /\ pc = "done"
    /\ validation.phase = "idle"
    /\ validation' = [phase |-> "validated", err |-> validate_elements(<<>>, 1)]
    /\ UNCHANGED <<compVars, fd, idVars, resolve, lookup>>

\* The canvases validated: two processors d and e and two ProcessGroups g
\* and h of the component with ports i (input) and o (output); d connects to
\* nothing, to e or to g, and g to nothing, to d or to h, with every choice
\* of the port names a ProcessGroup endpoint calls for.
Ports == {<<>>, <<"i">>, <<"o">>, <<"x">>}

ProcessorConnections ==
    {<<>>, <<Connection(<<"e">>, <<>>, <<>>)>>}
        \cup {<<Connection(<<"g">>, <<>>, t)>> : t \in Ports}

GroupConnections ==
    {<<>>} \cup {<<Connection(<<"d">>, f, <<>>)>> : f \in Ports}
           \cup {<<Connection(<<"h">>, f, t)>> : f \in Ports, t \in Ports}

ValidateCanvases ==
    {<<Connected(RawProc(<<"d">>), cd), RawProc(<<"e">>),
       Connected(RawPG(<<"g">>, "simple", EmptyMap, EmptyMap), cg),
       RawPG(<<"h">>, "simple", EmptyMap, EmptyMap)>> :
        cd \in ProcessorConnections, cg \in GroupConnections}

ValidateInit ==
    /\ canvas \in ValidateCanvases
    /\ mode \in {m \in Modes : m.dir # m.batch}
    /\ CompInit
    /\ FdIdle
    /\ IdsIdle
    /\ VarsIdle
    /\ ValidateIdle
    /\ LookupIdle

ValidateNext ==
    \/ Next
    \/ Validate

SpecValidate == ValidateInit /\ [][ValidateNext]_vars

\* ------------------------------------------------- Flow lookups on their own
\* The component a directory load of the file at path p stores.
LoadedFrom(p) == FlowComponent([ComponentDir[p] EXCEPT !.source_file = p])

\* The loaded-components maps find_component_by_path is called on: the keys
\* S and R of the maps a load builds and the key "duplicate" that
\* test_find_component_by_path adds by hand, each absent or holding the
\* component of one of two files.
LookupKeys == {<<"S">>, <<"R">>, <<"d", "u", "p", "l", "i", "c", "a", "t", "e">>}

LookupMaps ==
    UNION {[K -> {LoadedFrom("simple"), LoadedFrom("req")}] : K \in SUBSET LookupKeys}

LookupPaths == {"simple", "req", "nofile"}

FindInit ==
    /\ lookup \in [phase : {"call"}, op : {"find_component_by_path"},
                   components : LookupMaps, path : LookupPaths]
    /\ canvas = <<>>
    /\ mode = [dir |-> TRUE, batch |-> FALSE]
    /\ CompInit
    /\ FdIdle
    /\ IdsIdle
    /\ VarsIdle
    /\ ValidateIdle

\* flow.find_component_by_path(path) returns or raises.
FindComponentCall ==
    /\ lookup.phase = "call"
    /\ lookup' = [phase |-> "returned", op |-> lookup.op, components |-> lookup.components,
                  path |-> lookup.path,
                  result |-> find_component_by_path(lookup.components, lookup.path)]
    /\ UNCHANGED <<compVars, fd, idVars, resolve, validation>>

FindNext == FindComponentCall

SpecFind == FindInit /\ [][FindNext]_vars

\* flow.get_parent_element(e) for an element e of the composed flow returns
\* or raises.
GetParentCall ==
    /\ pc = "done"
    /\ lookup.phase = "idle"
    /\ \E k \in DOMAIN elems :
           lookup' = [phase |-> "returned", op |-> "get_parent_element", element |-> k,
                      result |-> get_parent_element(elems[k])]
    /\ UNCHANGED <<compVars, fd, idVars, resolve, validation>>

ParentNext ==
    \/ Next
    \/ GetParentCall

SpecParent == Init /\ [][ParentNext]_vars

\* ------------------------------------------ FlowElement.from_dict on its own
\* The raw mappings from_dict is called with: every combination of a type
\* (absent, empty, each variant, an unknown one), a name (absent, empty,
\* plain, holding the delimiter) and a config (absent, without and with a
\* package_id).
FdTypes == {"", "processor", "process_group", "input_port", "output_port", "invalid-type"}

FdNames == {<<>>, <<"t">>, <<"a", "/", "b">>}

FdSpecs ==
    {RawEl(t, n, kt \cup kn \cup kc, "", EmptyMap, EmptyMap, pkg) :
        t \in FdTypes, n \in FdNames, kt \in {{}, {"type"}}, kn \in {{}, {"name"}},
        kc \in {{}, {"config"}}, pkg \in BOOLEAN}

FdInit ==
    /\ fd \in [phase : {"call"}, spec : FdSpecs]
    /\ canvas = <<>>
    /\ mode = [dir |-> TRUE, batch |-> FALSE]
    /\ CompInit
    /\ IdsIdle
    /\ VarsIdle
    /\ ValidateIdle
    /\ LookupIdle

\* FlowElement.from_dict(elem_dict) returns or raises.
FromDictCall ==
    /\ fd.phase = "call"
    /\ fd' = [phase |-> "returned", spec |-> fd.spec, result |-> from_dict(fd.spec)]
    /\ UNCHANGED <<compVars, idVars, resolve, validation, lookup>>

FdNext == FromDictCall

SpecFromDict == FdInit /\ [][FdNext]_vars

\* ================================================================== claims
\* ------------------------------------------------------- tree vocabulary
IsGroup(k) == elems[k].type = "process_group"

Groups == {k \in DOMAIN elems : IsGroup(k)}

\* The keys of the ProcessGroups that contain the element at k, outermost
\* first: the proper, non-empty prefixes of its key.
Ancestors(k) == {SubSeq(k, 1, n) : n \in 1..(Len(k) - 1)}

ParentOf(k) == SubSeq(k, 1, Len(k) - 1)

SameRefAncestors(k) ==
    {a \in Ancestors(k) : elems[a].component_path = elems[k].component_path}

Related(j, k) == j \in Ancestors(k) \/ k \in Ancestors(j)

LoadedCount(path) == Cardinality({n \in DOMAIN loaded : loaded[n].source_file = path})

\* Two ProcessGroups, neither above the other, that instantiate one component.
UnrelatedTwins(j, k) ==
    /\ j # k /\ ~Related(j, k)
    /\ elems[j].component_path = elems[k].component_path

CachedLoadPending ==
    /\ pc = "canvas" /\ stack # <<>> /\ Top.phase = "load"
    /\ elems[Top.key].component_path \in DOMAIN ComponentDir
    /\ ComponentDir[elems[Top.key].component_path].hasName
    /\ ComponentDir[elems[Top.key].component_path].name \in DOMAIN loaded

\* The batch is about to be loaded and every name in it is already a key.
CachedBatchPending ==
    /\ pc = "canvas" /\ stack # <<>> /\ Top.phase = "loadbatch"
    /\ \A i \in DOMAIN WithComponents : WithComponents[i].name \in DOMAIN loaded

\* C3: loading is idempotent: a load of a component whose name is already
\* in the loaded-components map leaves the map unchanged and does not parse
\* the source again.
C3_CachedLoadNoReparse ==
    [][(CachedLoadPending \/ CachedBatchPending)
           => (loaded' = loaded /\ parses' = parses)]_vars

\* What such a load does keep: it raises nothing and leaves the map
\* unchanged, the cached entry included, while the file of a directory load
\* is read and parsed once more.
CachedLoadKeepsMap ==
    [][/\ (CachedLoadPending \/ CachedBatchPending) => (loaded' = loaded /\ pc' = "canvas")
       /\ CachedLoadPending =>
              parses' = [parses EXCEPT ![elems[Top.key].component_path] = @ + 1]]_vars

\* ------------------------------------------------ required-input vocabulary
\* _init_component_recursive is about to run for the ProcessGroup on top of
\* the stack, and its component reference resolves.
EnterPending ==
    /\ pc = "canvas" /\ stack # <<>> /\ Top.phase = "enter"
    /\ find_component_by_path(loaded, elems[Top.key].component_path).found

EnterComponent ==
    loaded[find_component_by_path(loaded, elems[Top.key].component_path).name]

\* What a component requires and a ProcessGroup does not provide, as
\* positions in the component's declarations.
AbsentKeys(c, g) ==
    {i \in DOMAIN c.required_controllers :
        c.required_controllers[i].key \notin DOMAIN g.controllers}

AbsentVars(c, g) == {i \in DOMAIN c.required_vars : c.required_vars[i] \notin DOMAIN g.vars}

\* Required key i is bound to a controller of the flow that has the
\* required type.
KeySatisfied(c, g, i) ==
    /\ i \notin AbsentKeys(c, g)
    /\ \E j \in DOMAIN FlowControllers :
           /\ FlowControllers[j].name = g.controllers[c.required_controllers[i].key].ref
           /\ FlowControllers[j].package_id = c.required_controllers[i].type

UnsatisfiedKeys(c, g) ==
    {i \in DOMAIN c.required_controllers : ~KeySatisfied(c, g, i)}

Least(S) == CHOOSE i \in S : \A j \in S : i <= j

\* C4 (as stated): a ProcessGroup that lacks a required controller key or
\* a required variable makes initialize fail with a ValidationError,
\* "Missing required_controllers" or "Missing required_vars", whose message
\* names a key or variable that is missing.
C4_MissingNamed ==
    [][(EnterPending
          /\ AbsentKeys(EnterComponent, elems[Top.key])
               \cup AbsentVars(EnterComponent, elems[Top.key]) # {}) =>
         LET c == EnterComponent
             g == elems[Top.key]
         IN  /\ pc' = "failed"
             /\ err'.class = "FlowValidationException"
             /\ \/ /\ err'.msg = "Missing required_controllers"
                   /\ \E i \in AbsentKeys(c, g) : err'.arg = c.required_controllers[i].key
                \/ /\ err'.msg = "Missing required_vars"
                   /\ \E i \in AbsentVars(c, g) : err'.arg = c.required_vars[i]]_vars

\* C4 (amended): a ProcessGroup that lacks a required controller key or a
\* required variable makes initialize fail before any of its children is
\* composed, with the error of the first check that fails: the checks run
\* over the required controllers in declaration order (presence, then the
\* bound controller and its type) and then over the required variables in
\* declaration order.  The error is the ValidationError "Missing
\* required_controllers" naming k when the first unsatisfied key k is
\* absent, and the ValidationError "Missing required_vars" naming the first
\* absent variable when every required controller is satisfied.
C4_FirstMissingNamed ==
    [][(EnterPending
          /\ AbsentKeys(EnterComponent, elems[Top.key])
               \cup AbsentVars(EnterComponent, elems[Top.key]) # {}) =>
         LET c  == EnterComponent
             g  == elems[Top.key]
             uk == UnsatisfiedKeys(c, g)
         IN  /\ pc' = "failed"
             /\ kids'[Top.key] = <<>>
             /\ (uk # {} /\ Least(uk) \in AbsentKeys(c, g)) =>
                    err' = Err("FlowValidationException", "Missing required_controllers",
                               c.required_controllers[Least(uk)].key)
             /\ (uk # {} /\ Least(uk) \notin AbsentKeys(c, g)) =>
                    err'.msg \notin {"Missing required_controllers", "Missing required_vars"}
             /\ uk = {} =>
                    err' = Err("FlowValidationException", "Missing required_vars",
                               c.required_vars[Least(AbsentVars(c, g))])]_vars

\* C4 witness: initialize has failed naming the second required key, the
\* first one being bound, on a ProcessGroup without children.
C4_Witness ==
    /\ pc = "failed"
    /\ err = Err("FlowValidationException", "Missing required_controllers", "k2")
    /\ stack # <<>> /\ Top.phase = "enter"
    /\ "k1" \in DOMAIN elems[Top.key].controllers
    /\ kids[Top.key] = <<>>

\* ------------------------------------------------------------ from_dict
\* The raw specs the claim says are rejected.
BadSpec(d) ==
    \/ "type" \notin d.keys
    \/ d.type \notin {"processor", "process_group", "input_port", "output_port"}
    \/ "name" \notin d.keys
    \/ d.name = <<>>
    \/ PG_NAME_DELIMETER \in Range(d.name)
    \/ d.type = "processor" /\ ("config" \notin d.keys \/ ~d.pkg)

\* C5: from_dict fails with a DefinitionError (FlowLibException) on every
\* raw spec whose type is missing or unrecognised, whose name is missing,
\* empty or holds the delimiter, or that is a processor without package_id,
\* and the flow's element maps and component cache are as they were.
C5_BadSpecDefinitionError ==
    (fd.phase = "returned" /\ BadSpec(fd.spec)) =>
        /\ fd.result.err.class = "FlowLibException"
        /\ elems = <<>> /\ kids = (<<>> :> <<>>) /\ loaded = <<>>

\* C9: a well-formed raw spec whose name is already used by an element of
\* the same parent scope (the root canvas, or the ProcessGroup being
\* composed) makes initialize fail with a ValidationError, and the element
\* maps are left as they were, so the earlier element is not overwritten.
C9_CollisionRejected ==
    [][/\ (/\ pc = "canvas" /\ stack = <<>> /\ ci <= Len(canvas)
           /\ from_dict(canvas[ci]).err = NoErr
           /\ <<canvas[ci].name>> \in DOMAIN elems)
          => /\ pc' = "failed"
             /\ err'.class = "FlowValidationException"
             /\ elems' = elems /\ kids' = kids
       /\ (/\ pc = "canvas" /\ stack # <<>> /\ Top.phase = "children"
           /\ Top.idx <= Len(loaded[Top.comp].process_group)
           /\ from_dict(loaded[Top.comp].process_group[Top.idx]).err = NoErr
           /\ Append(Top.key, loaded[Top.comp].process_group[Top.idx].name) \in DOMAIN elems)
          => /\ pc' = "failed"
             /\ err'.class = "FlowValidationException"
             /\ elems' = elems /\ kids' = kids]_vars

\* C10: a ProcessGroup that holds a child has its component resolved, every
\* required controller key of that component bound to a controller of the
\* flow, and every required variable present.
C10_RequirementsBeforeChildren ==
    \A g \in Groups :
        kids[g] # <<>> =>
            LET fc == find_component_by_path(loaded, elems[g].component_path)
            IN  /\ fc.found
                /\ AbsentKeys(loaded[fc.name], elems[g]) = {}
                /\ AbsentVars(loaded[fc.name], elems[g]) = {}
                /\ \A i \in DOMAIN loaded[fc.name].required_controllers :
                       elems[g].controllers[loaded[fc.name].required_controllers[i].key].resolved

\* C10 witness: a ProcessGroup of a component that requires controllers and
\* a variable holds a child.
C10_Witness ==
    \E g \in Groups :
        /\ kids[g] # <<>>
        /\ LET fc == find_component_by_path(loaded, elems[g].component_path)
           IN  /\ fc.found
               /\ loaded[fc.name].required_controllers # <<>>
               /\ loaded[fc.name].required_vars # <<>>

\* C8: identifiers are write-once: whatever the first value assigned to an
\* id or parent_id field, empty and falsy values included, the field keeps
\* that value under every later assignment.
C8_WriteOnce ==
    \A f \in IdFields : idFirst[f].set => ids[f] = idFirst[f].value

\* ---------------------------------------------------------------- C7
\* Whether the ProcessGroup has an instance override for n.
Overridden(n) == \E i \in DOMAIN resolve.vars : resolve.vars[i].key = n

\* The value the three tiers give n: the (rendered) instance override, else
\* the component's default, else the flow's (rendered) global variable.
TierValue(n) ==
    IF Overridden(n) THEN resolve.context[n]
    ELSE IF n \in DOMAIN resolve.defaults THEN resolve.defaults[n]
    ELSE IF n \in DOMAIN resolve.global_vars THEN resolve.global_vars[n]
    ELSE <<>>

RECURSIVE Substituted(_)
Substituted(t) ==
    IF t = <<>> THEN <<>>
    ELSE (IF Head(t).k = "var" THEN TierValue(Head(t).v) ELSE <<Head(t)>>)
         \o Substituted(Tail(t))

\* C7: three-tier precedence: once the flow is resolved, the property of
\* the processor inside the ProcessGroup is its template with each name
\* replaced by the instance override if there is one, else by the component
\* default, else by the global variable.
C7_Precedence ==
    resolve.phase = "done" => resolve.properties.child = Substituted(PropertyTemplate)

\* What the evaluation with the context of the group (lines 234-236) gives,
\* before the walk recurses: the three-tier value.
PrecedenceAtGroupEvaluation ==
    resolve.phase = "nested" => resolve.properties.child = Substituted(PropertyTemplate)

\* The same at the end of the walk, for flows whose three-tier value holds
\* no template text.
PrecedenceOfPlainValues ==
    (/\ resolve.phase = "done"
     /\ \A i \in DOMAIN Substituted(PropertyTemplate) :
            Substituted(PropertyTemplate)[i].k = "lit")
        => resolve.properties.child = Substituted(PropertyTemplate)

\* ---------------------------------------------------------------- C6
\* The ports of a type that the component of a ProcessGroup spec declares.
DeclaredPorts(d, type) ==
    {ch.name : ch \in {x \in Range(ComponentDir[d.component_path].process_group) :
                          x.type = type}}

\* The connections of the canvas: <<index of the node spec, index>>.
ConnectionsOf ==
    UNION {{<<n, i>> : i \in DOMAIN canvas[n].connections} : n \in DOMAIN canvas}

\* What is wrong with the ports of the i-th connection of the n-th node
\* spec, by the definitions the flow was composed from.
PortFaults(n, i) ==
    LET c == canvas[n].connections[i]
        src == canvas[n]
        dst == CHOOSE d \in Range(canvas) : d.name = c.name
    IN  (IF src.type = "process_group" /\ c.from_port = <<>>
         THEN {"does not define a from_port"} ELSE {})
        \cup (IF src.type = "process_group" /\ c.from_port # <<>>
                 /\ c.from_port \notin DeclaredPorts(src, "output_port")
              THEN {"does not define an OutputPort named"} ELSE {})
        \cup (IF dst.type = "process_group" /\ c.to_port = <<>>
              THEN {"does not define a to_port"} ELSE {})
        \cup (IF dst.type = "process_group" /\ c.to_port # <<>>
                 /\ c.to_port \notin DeclaredPorts(dst, "input_port")
              THEN {"does not define an InputPort named"} ELSE {})

AllPortFaults == UNION {PortFaults(x[1], x[2]) : x \in ConnectionsOf}

\* C6: validation of a composed flow fails with a ValidationError exactly
\* when some connection of the canvas with a ProcessGroup endpoint lacks the
\* port name of that side or names no port the component of that
\* ProcessGroup declares, with the message of one of these faults;
\* connections between elements that are not ProcessGroups (on the canvas
\* and inside the components) pass without port names.
C6_PortsValidated ==
    validation.phase = "validated" =>
        IF AllPortFaults = {}
        THEN validation.err = NoErr
        ELSE /\ validation.err.class = "FlowValidationException"
             /\ validation.err.msg \in AllPortFaults

C6_Witness ==
    /\ validation.phase = "validated"
    /\ validation.err.msg = "does not define an InputPort named"
    /\ \E k \in DOMAIN elems : ~IsGroup(k) /\ elems[k].connections # <<>>

\* ---------------------------------------------------------------- C11
\* C11: initialize is atomic on failure: after a failed initialize the
\* flow's element map and the child maps of its ProcessGroups hold no
\* element the failed call added.
C11_NothingLeftBehind ==
    pc = "failed" => (elems = <<>> /\ kids = (<<>> :> <<>>))

\* What does hold of a failed call: it stops at the first violation, and
\* nothing is composed after it.
FailureIsFinal ==
    [][pc = "failed" => (pc' = "failed" /\ elems' = elems /\ kids' = kids)]_vars

\* ---------------------------------------------------------------- C12
\* C12: an initialize call given both a component directory and a batch
\* fails with the configuration error, whatever the canvas, and before any
\* element is added to the flow: it never completes, it adds no element, and
\* once it has stopped it has failed with that error.
C12_ModesExclusive ==
    (mode.dir /\ mode.batch) =>
        /\ pc # "done"
        /\ elems = <<>>
        /\ pc = "failed" =>
               err = Err("FlowLibException", "Only one of component_dir or with_components", "")

\* ---------------------------------------------------------------- C13
\* _init_component_recursive is about to run for a ProcessGroup whose
\* component_path is the source identity of no loaded component.
UnresolvedPending ==
    /\ pc = "canvas" /\ stack # <<>> /\ Top.phase = "enter"
    /\ find_component_by_path(loaded, elems[Top.key].component_path).err = NoErr
    /\ ~find_component_by_path(loaded, elems[Top.key].component_path).found

\* C13: a ProcessGroup whose component reference resolves to no loaded
\* component makes initialize fail with the ValidationError "Component
\* reference not found".
C13_UnresolvedRejected ==
    [][UnresolvedPending =>
           /\ pc' = "failed"
           /\ err'.class = "FlowValidationException"
           /\ err'.msg = "Component reference not found"]_vars

\* ---------------------------------------------------------------- C14
\* The required keys the ProcessGroup binds, but not to a controller of the
\* flow that has the required type.
MisboundKeys(c, g) == UnsatisfiedKeys(c, g) \ AbsentKeys(c, g)

\* C14: a required controller key bound to a controller that has not the
\* required type, or to a name no controller of the flow has, makes
\* initialize fail with a ValidationError; when every required key is bound
\* to a controller of its type (and no required variable is missing) each
\* entry is replaced by the resolved Controller.
C14_ControllerTypeEnforced ==
    [][EnterPending =>
         LET c == EnterComponent
             g == elems[Top.key]
         IN  /\ MisboundKeys(c, g) # {} =>
                    (pc' = "failed" /\ err'.class = "FlowValidationException")
             /\ (UnsatisfiedKeys(c, g) = {} /\ AbsentVars(c, g) = {}) =>
                    /\ pc' = "canvas"
                    /\ \A i \in DOMAIN c.required_controllers :
                           elems'[Top.key].controllers[c.required_controllers[i].key].resolved]_vars

\* ---------------------------------------------------------------- C15
\* The keys of the map whose component has the source identity looked up.
LookupMatches ==
    {n \in DOMAIN lookup.components : lookup.components[n].source_file = lookup.path}

\* C15: find_component_by_path(p) returns the loaded component whose source
\* identity is p when there is exactly one, None when there is none, and
\* raises FlowLibException "Found multiple loaded components" when there
\* are more.
C15_FindByPath ==
    (lookup.phase = "returned" /\ lookup.op = "find_component_by_path") =>
        /\ Cardinality(LookupMatches) = 1 =>
               /\ lookup.result.err = NoErr /\ lookup.result.found
               /\ lookup.result.name \in LookupMatches
        /\ Cardinality(LookupMatches) = 0 =>
               lookup.result.err = NoErr /\ ~lookup.result.found
        /\ Cardinality(LookupMatches) > 1 =>
               /\ lookup.result.err.class = "FlowLibException"
               /\ lookup.result.err.msg = "Found multiple loaded components"

\* ---------------------------------------------------------------- C17
\* The parent path the bookkeeping gives the element at k.
ExpectedParentPath(k) ==
    IF Len(k) = 1 THEN FlowName
    ELSE elems[ParentOf(k)].parent_path \o <<PG_NAME_DELIMETER>> \o elems[ParentOf(k)].name

\* The parent paths are kept as stated.
ParentPathsKept ==
    \A k \in DOMAIN elems : elems[k].parent_path = ExpectedParentPath(k)

\* C17: every composed element's parent path is its parent's parent path,
\* the delimiter and the parent's name (the flow name on the root canvas),
\* and get_parent_element(e) returns the ProcessGroup whose child map holds
\* e, or the flow for a root-canvas element (the key <<>>).
C17_ParentBookkeeping ==
    /\ ParentPathsKept
    /\ (lookup.phase = "returned" /\ lookup.op = "get_parent_element") =>
           /\ lookup.result.err = NoErr
           /\ lookup.result.key = ParentOf(lookup.element)

\* ---------------------------------------------------------------- C16
\* The controller c1 looked up is unknown to the binding or has no id yet.
NotMaterialized(controllers) ==
    "c1" \notin DOMAIN controllers \/ controllers["c1"].id = None

\* The lookup property resolved with the lookup's value.
LookupResolved(value) == <<Lit("i"), Lit("=")>> \o jinja_finalize(value)

\* C16: a controller lookup for a controller that is unknown or has no id
\* yet raises nothing and yields the empty value None, and the property
\* around it is resolved, the lookup replaced by what jinja2 writes for that
\* value: for the root-canvas processor with the flow's controllers, for the
\* processor of the ProcessGroup with the group's.
C16_LookupNeverRaises ==
    /\ resolve.phase # "failed"
    /\ resolve.err = NoErr
    /\ (resolve.phase \in {"group", "nested", "done"}
        /\ NotMaterialized(resolve.flow_controllers))
           => resolve.properties.root_lookup = LookupResolved(None)
    /\ (resolve.phase \in {"nested", "done"}
        /\ NotMaterialized(resolve.group_controllers))
           => resolve.properties.child_lookup = LookupResolved(None)

\* The same for the controllers that hold a Controller under every key: the
\* lookup yields None and nothing is raised.
ResolvedBindingsNeverRaise ==
    ("c1" \in DOMAIN resolve.group_controllers => resolve.group_controllers["c1"].resolved)
        => C16_LookupNeverRaises

\* ---------------------------------------------------------------- C18
\* C18: resolution is single-pass: at the end of the walk the root-canvas
\* processor has been evaluated once, against the global-only context, and
\* the processor of the ProcessGroup once, against the group's context.
C18_SinglePass ==
    resolve.phase = "done" =>
        /\ resolve.evaluated.root = <<"global">>
        /\ resolve.evaluated.child = <<"group">>

\* The root-canvas processor is evaluated once, against the global-only
\* context.
RootEvaluatedOnce ==
    resolve.phase \in {"group", "nested", "done"} => resolve.evaluated.root = <<"global">>

\* ---------------------------------------------------------------- C20
\* What the walk gives the flow on its own: the same steps from an
\* env.globals that holds nothing.
AloneGlobals ==
    [n \in DOMAIN resolve.given |-> render(resolve.given[n], EmptyMap, EmptyMap, EmptyMap)]

AloneContext ==
    replace_vars_context(resolve.defaults, resolve.vars, AloneGlobals, resolve.flow_controllers)

AloneChild(t) ==
    render(render(t, AloneContext, AloneGlobals, resolve.group_controllers),
           EmptyMap, AloneGlobals, resolve.flow_controllers)

AloneProperties ==
    [root |-> render(PropertyTemplate, EmptyMap, AloneGlobals, resolve.flow_controllers),
     root_lookup |-> render(LookupTemplate, EmptyMap, AloneGlobals, resolve.flow_controllers),
     child |-> AloneChild(PropertyTemplate),
     child_lookup |-> AloneChild(LookupTemplate)]

\* C20: the template context is private to one flow: the resolved
\* properties of a second flow, resolved after another in the same process,
\* are those it has when resolved alone.
C20_ContextPrivate ==
    (resolve.run = 2 /\ resolve.phase = "done") => resolve.properties = AloneProperties

\* The first flow's resolved properties are those it has alone, and the
\* controller bindings of the first flow are not those of the second's
\* lookups.
FirstFlowAlone ==
    (resolve.run = 1 /\ resolve.phase = "done") => resolve.properties = AloneProperties

SecondFlowLookupsPrivate ==
    (resolve.run = 2 /\ resolve.phase = "done") =>
        /\ resolve.properties.root_lookup = AloneProperties.root_lookup
        /\ resolve.properties.child_lookup = AloneProperties.child_lookup

\* ---------------------------------------------------------------- C19
\* The names of the children a component declares, in declaration order.
DeclaredChildren(c) ==
    [i \in DOMAIN loaded[c].process_group |-> loaded[c].process_group[i].name]

\* The ProcessGroup at g is composed: its component is resolved, its child
\* map holds the component's declared children, in declaration order, and
\* the component is marked used.
Composed(g) ==
    LET fc == find_component_by_path(loaded, elems[g].component_path)
    IN  /\ fc.err = NoErr /\ fc.found
        /\ kids[g] = DeclaredChildren(fc.name)
        /\ \A i \in DOMAIN kids[g] : Append(g, kids[g][i]) \in DOMAIN elems
        /\ loaded[fc.name].is_used

\* Every ProcessGroup reachable from the canvas is in the flow and composed.
AllComposed ==
    /\ \A i \in DOMAIN canvas : <<canvas[i].name>> \in DOMAIN elems
    /\ \A g \in Groups : Composed(g)

\* C19: initialize terminates: it raises an error, or it returns with every
\* reachable ProcessGroup composed.
C19_Terminates ==
    <>(pc = "failed" \/ (pc = "done" /\ AllComposed))

\* What initialize returns with, as a property of states.
ReturnsComposed == pc = "done" => AllComposed

\* initialize has returned from a flow with a ProcessGroup inside a
\* ProcessGroup, both composed.
C19_Witness ==
    /\ pc = "done"
    /\ AllComposed
    /\ \E g \in Groups : Len(g) = 2 /\ kids[g] # <<>>

====
